---------------------------- MODULE Spec2Model ----------------------------
(***************************************************************************)
(* Model of the appointment availability and booking engine of the dental  *)
(* receptionist: AppointmentProcessor (server/processors/appointment.py)   *)
(* and GoogleCalendarService (server/cal/google_calendar.py).              *)
(*                                                                         *)
(* Time.  An aware datetime in the clinic timezone is a record             *)
(* [date |-> [y, m, d], sec |-> seconds since local midnight].  Its        *)
(* timestamp() is the epoch instant in seconds.  The remote calendar       *)
(* stores events as epoch instants.                                        *)
(***************************************************************************)
EXTENDS Integers, Sequences, FiniteSets, Bags, TLC

\* Python's None: NoneStr where a text is expected, None elsewhere
None == <<>>
NoneStr == "None"

\* dict.get(key, default); a dict is a function from its keys, {} is <<>>
get(d, key, default) == IF key \in DOMAIN d THEN d[key] ELSE default

\* F(v), with v evaluated once
With(v, F(_)) == CHOOSE y \in {F(x) : x \in {v}} : TRUE

(***************************************************************************)
(* Bounds of the model.                                                    *)
(***************************************************************************)
MaxEvents == 2       \* events the remote calendar holds at most
MaxAnchor == 1       \* book requests aim near the stride candidates 0..MaxAnchor of a day

(***************************************************************************)
(* Constants of the program.                                               *)
(***************************************************************************)
OpenHour == 9              \* business_hours: (9, 17)
CloseHour == 17
SlotIntervalMinutes == 30  \* slot_interval
Tolerance == 60            \* "tolérance de 60 secondes"
DefaultDuration == 60      \* _get_service_duration: return 60
SummaryLimit == 3          \* slots[:3]

(***************************************************************************)
(* Calendar arithmetic of datetime.date.                                   *)
(***************************************************************************)
IsLeap(y) == (y % 4 = 0 /\ y % 100 # 0) \/ y % 400 = 0

DaysInMonth(y, m) ==
    IF m = 2 THEN (IF IsLeap(y) THEN 29 ELSE 28)
    ELSE IF m \in {4, 6, 9, 11} THEN 30 ELSE 31

\* days from 1970-01-01 to the day d of the month mp months after March of the year y,
\* the year starting in March (proleptic Gregorian calendar)
DaysFromYmp(y, mp, d) ==
    365 * y + y \div 4 - y \div 100 + y \div 400 + (153 * mp + 2) \div 5 + d - 719469

\* days from 1970-01-01 to the date
DaysFromCivil(date) ==
    IF date.m <= 2 THEN DaysFromYmp(date.y - 1, date.m + 9, date.d)
    ELSE DaysFromYmp(date.y, date.m - 3, date.d)

\* date.weekday(): Monday is 0, Sunday is 6
weekday(date) == (DaysFromCivil(date) + 3) % 7

\* the last Sunday of month m of year y (31-day months)
LastSunday(y, m) == 31 - ((weekday([y |-> y, m |-> m, d |-> 31]) + 1) % 7)

\* utcoffset of gettz('Europe/Paris') during the business hours of the date
UtcOffset(date) ==
    LET summer == \/ (date.m > 3 /\ date.m < 10)
                  \/ (date.m = 3 /\ date.d >= LastSunday(date.y, 3))
                  \/ (date.m = 10 /\ date.d < LastSunday(date.y, 10))
    IN  IF summer THEN 7200 ELSE 3600

\* datetime.datetime.combine(date, datetime.time(hour, 0)).replace(tzinfo=self.tz)
combine(date, hour) == [date |-> date, sec |-> hour * 3600]

\* int(dt.timestamp())
timestamp(dt) == DaysFromCivil(dt.date) * 86400 + dt.sec - UtcOffset(dt.date)

\* dt + datetime.timedelta(minutes=n)
plus_minutes(dt, n) == [date |-> dt.date, sec |-> dt.sec + n * 60]

\* dt.strftime('%H:%M'): the wall clock, seconds dropped
strftime_HM(dt) == [H |-> dt.sec \div 3600, M |-> (dt.sec % 3600) \div 60]

\* dt.strftime('%Y-%m-%d %H:%M')
strftime_YmdHM(dt) == [date |-> dt.date, H |-> dt.sec \div 3600, M |-> (dt.sec % 3600) \div 60]

\* _format_datetime_for_google: '%Y-%m-%dT%H:%M:%S', the offset dropped
format_datetime_for_google(dt) ==
    [date |-> dt.date, H |-> dt.sec \div 3600, M |-> (dt.sec % 3600) \div 60, S |-> dt.sec % 60]

(***************************************************************************)
(* Date texts.  A text is [sep, tok]: three tokens joined by sep.  A token *)
(* is [num, val, len]: a run of len digits of value val, or (num = FALSE)  *)
(* the full English name of month val.                                     *)
(***************************************************************************)
Num(val, len) == [num |-> TRUE, val |-> val, len |-> len]
MonthName(m) == [num |-> FALSE, val |-> m, len |-> 0]

IsDay(t) == t.num /\ t.len \in 1..2 /\ t.val \in 1..31      \* %d
IsMonth(t) == t.num /\ t.len \in 1..2 /\ t.val \in 1..12    \* %m
IsYear(t) == t.num /\ t.len = 4                              \* %Y
IsMonthName(t) == ~t.num /\ t.val \in 1..12                  \* %B

\* the date of day/month/year tokens, or None (ValueError: day out of range)
MakeDate(d, m, y) ==
    IF d.val <= DaysInMonth(y.val, m.val)
    THEN [y |-> y.val, m |-> m.val, d |-> d.val]
    ELSE None

\* datetime.datetime.strptime(date_str, fmt).date() for the four formats, None on ValueError
strptime(date_str, fmt) ==
    LET t == date_str.tok IN
    CASE fmt = "%d/%m/%Y" ->
            IF date_str.sep = "/" /\ IsDay(t[1]) /\ IsMonth(t[2]) /\ IsYear(t[3])
            THEN MakeDate(t[1], t[2], t[3]) ELSE None
      [] fmt = "%Y-%m-%d" ->
            IF date_str.sep = "-" /\ IsYear(t[1]) /\ IsMonth(t[2]) /\ IsDay(t[3])
            THEN MakeDate(t[3], t[2], t[1]) ELSE None
      [] fmt = "%d-%m-%Y" ->
            IF date_str.sep = "-" /\ IsDay(t[1]) /\ IsMonth(t[2]) /\ IsYear(t[3])
            THEN MakeDate(t[1], t[2], t[3]) ELSE None
      [] fmt = "%d %B %Y" ->
            IF date_str.sep = " " /\ IsDay(t[1]) /\ IsMonthName(t[2]) /\ IsYear(t[3])
            THEN MakeDate(t[1], t[2], t[3]) ELSE None

DateFormats == <<"%d/%m/%Y", "%Y-%m-%d", "%d-%m-%Y", "%d %B %Y">>

RECURSIVE parse_date_from(_, _)
parse_date_from(date_str, i) ==
    IF i > Len(DateFormats) THEN None
    ELSE LET r == strptime(date_str, DateFormats[i]) IN
         IF r # None THEN r ELSE parse_date_from(date_str, i + 1)

\* _parse_date: the date, or None where the code raises ValueError
_parse_date(date_str) == parse_date_from(date_str, 1)

(***************************************************************************)
(* Service texts and duration resolution.                                  *)
(***************************************************************************)
\* the characters of the texts used as service types
Chars(s) ==
    CASE s = "" -> <<>>
      [] s = "contrôle" -> <<"c", "o", "n", "t", "r", "ô", "l", "e">>
      [] s = "Nettoyage" -> <<"N", "e", "t", "t", "o", "y", "a", "g", "e">>
      [] s = "couronne et carie" ->
            <<"c", "o", "u", "r", "o", "n", "n", "e", " ", "e", "t", " ", "c", "a", "r", "i", "e">>
      [] s = "détartrage" -> <<"d", "é", "t", "a", "r", "t", "r", "a", "g", "e">>
      [] s = "CONTRÔLE" -> <<"C", "O", "N", "T", "R", "Ô", "L", "E">>
      [] s = "Extraction canal" ->
            <<"E", "x", "t", "r", "a", "c", "t", "i", "o", "n", " ", "c", "a", "n", "a", "l">>

\* str.lower(), on the characters that occur
LowerChar(c) ==
    CASE c = "N" -> "n"
      [] c = "C" -> "c"
      [] c = "Ô" -> "ô"
      [] c = "O" -> "o"
      [] c = "T" -> "t"
      [] c = "R" -> "r"
      [] c = "L" -> "l"
      [] c = "E" -> "e"
      [] OTHER -> c

lower(cs) == [i \in 1..Len(cs) |-> LowerChar(cs[i])]

\* key in text
IsSubstring(key, text) ==
    \E i \in 0..(Len(text) - Len(key)) :
        \A j \in 1..Len(key) : text[i + j] = key[j]

\* the durations dict, in insertion order
durations ==
    << [key |-> <<"c", "o", "n", "t", "r", "ô", "l", "e">>, value |-> 30],
       [key |-> <<"n", "e", "t", "t", "o", "y", "a", "g", "e">>, value |-> 45],
       [key |-> <<"c", "a", "r", "i", "e">>, value |-> 60],
       [key |-> <<"o", "b", "t", "u", "r", "a", "t", "i", "o", "n">>, value |-> 60],
       [key |-> <<"c", "o", "u", "r", "o", "n", "n", "e">>, value |-> 90],
       [key |-> <<"b", "r", "i", "d", "g", "e">>, value |-> 90],
       [key |-> <<"b", "l", "a", "n", "c", "h", "i", "m", "e", "n", "t">>, value |-> 60],
       [key |-> <<"c", "a", "n", "a", "l">>, value |-> 90],
       [key |-> <<"e", "x", "t", "r", "a", "c", "t", "i", "o", "n">>, value |-> 45] >>

RECURSIVE service_duration_from(_, _)
service_duration_from(text, i) ==
    IF i > Len(durations) THEN DefaultDuration
    ELSE IF IsSubstring(durations[i].key, text) THEN durations[i].value
         ELSE service_duration_from(text, i + 1)

\* _get_service_duration looking the keys up in the text as given, not lowered
_get_service_duration_case_sensitive(service_type) ==
    With(Chars(service_type), LAMBDA text : service_duration_from(text, 1))

\* _get_service_duration
_get_service_duration(service_type) ==
    With(lower(Chars(service_type)), LAMBDA text : service_duration_from(text, 1))

(***************************************************************************)
(* GoogleCalendarService.  The remote calendar is a bag of events          *)
(* [start, end], start and end being epoch instants; every event is a      *)
(* timed event whose dateTime carries its offset.                          *)
(***************************************************************************)
\* business_hours with the office open on Saturdays
business_hours_open_saturday(wd) == IF wd \in {6} THEN None ELSE <<OpenHour, CloseHour>>

\* business_hours[weekday]: None when the office is closed
business_hours(wd) == IF wd \in {5, 6} THEN None ELSE <<OpenHour, CloseHour>>

\* the event of a set that comes first by start time (then by end time)
FirstEvent(events) ==
    CHOOSE e \in events :
        \A f \in events : e.start < f.start \/ (e.start = f.start /\ e.end <= f.end)

RECURSIVE OrderByStartTime(_)
OrderByStartTime(events) ==
    IF events = EmptyBag THEN <<>>
    ELSE With(FirstEvent(BagToSet(events)),
              LAMBDA e : With(events (-) SetToBag({e}),
                              LAMBDA rest : <<e>> \o OrderByStartTime(rest)))

\* the events of the calendar that end after timeMin and start before timeMax
EventsInWindow(cal, timeMin, timeMax) ==
    LET keep == {e \in BagToSet(cal) : e.end > timeMin /\ e.start < timeMax} IN
    [e \in keep |-> cal[e]]

\* service.events().list(timeMin, timeMax, singleEvents=True, orderBy='startTime').execute()
events_list(cal, timeMin, timeMax) ==
    With(EventsInWindow(cal, timeMin, timeMax), LAMBDA events : OrderByStartTime(events))

\* the busy_periods list built from the listed events: (event_start, event_end) tuples
busy_periods_of(events) == [i \in 1..Len(events) |-> <<events[i].start, events[i].end>>]

\* sorted(periods, key=lambda x: x[0]): stable insertion of p into a sorted list
RECURSIVE InsertByStart(_, _)
InsertByStart(sorted_periods, p) ==
    IF sorted_periods = <<>> THEN <<p>>
    ELSE LET last_p == sorted_periods[Len(sorted_periods)] IN
         IF last_p[1] <= p[1] THEN Append(sorted_periods, p)
         ELSE Append(InsertByStart(SubSeq(sorted_periods, 1, Len(sorted_periods) - 1), p), last_p)

RECURSIVE sorted_by_start(_)
sorted_by_start(periods) ==
    IF periods = <<>> THEN <<>>
    ELSE With(sorted_by_start(SubSeq(periods, 1, Len(periods) - 1)),
              LAMBDA sorted_periods : InsertByStart(sorted_periods, periods[Len(periods)]))

Max(a, b) == IF a >= b THEN a ELSE b

\* the loop body of _merge_overlapping_periods, taking the period's own end on a merge
merge_step_keeps_last_end(merged, period) ==
    LET prev == merged[Len(merged)] IN
    IF period[1] <= prev[2]
    THEN [merged EXCEPT ![Len(merged)] = <<prev[1], period[2]>>]
    ELSE Append(merged, period)

\* the loop body of _merge_overlapping_periods, merging only when period[0] < merged[-1][1]
merge_step_strict(merged, period) ==
    LET prev == merged[Len(merged)] IN
    IF period[1] < prev[2]
    THEN [merged EXCEPT ![Len(merged)] = <<prev[1], Max(prev[2], period[2])>>]
    ELSE Append(merged, period)

\* the loop body of _merge_overlapping_periods
merge_step(merged, period) ==
    LET prev == merged[Len(merged)] IN
    IF period[1] <= prev[2]
    THEN [merged EXCEPT ![Len(merged)] = <<prev[1], Max(prev[2], period[2])>>]
    ELSE Append(merged, period)

RECURSIVE merge_from(_, _, _)
merge_from(merged, sorted_periods, i) ==
    IF i > Len(sorted_periods) THEN merged
    ELSE With(merge_step(merged, sorted_periods[i]),
              LAMBDA next_merged : merge_from(next_merged, sorted_periods, i + 1))

\* _merge_overlapping_periods returning merged[1:]
_merge_overlapping_periods_drops_first(periods) ==
    IF periods = <<>> THEN <<>>
    ELSE With(sorted_by_start(periods),
              LAMBDA sorted_periods :
                  With(merge_from(<<sorted_periods[1]>>, sorted_periods, 2),
                       LAMBDA merged : SubSeq(merged, 2, Len(merged))))

\* _merge_overlapping_periods
_merge_overlapping_periods(periods) ==
    IF periods = <<>> THEN <<>>
    ELSE With(sorted_by_start(periods),
              LAMBDA sorted_periods : merge_from(<<sorted_periods[1]>>, sorted_periods, 2))

\* _get_busy_periods with the periods of the calendar even when the remote listing raises
_get_busy_periods_ignores_failure(cal, listOk, start_datetime, end_datetime) ==
    With(events_list(cal, timestamp(start_datetime), timestamp(end_datetime)),
         LAMBDA events : With(busy_periods_of(events),
                              LAMBDA busy_periods : _merge_overlapping_periods(busy_periods)))

\* _get_busy_periods: the merged periods, [] when the remote listing raises
_get_busy_periods(cal, listOk, start_datetime, end_datetime) ==
    IF ~listOk THEN <<>>
    ELSE With(events_list(cal, timestamp(start_datetime), timestamp(end_datetime)),
              LAMBDA events : With(busy_periods_of(events),
                                   LAMBDA busy_periods : _merge_overlapping_periods(busy_periods)))

\* is_available counting a candidate that only touches a busy period as overlapping it
is_available_closed(current_time, slot_end, busy_periods) ==
    ~\E i \in 1..Len(busy_periods) :
        timestamp(current_time) <= busy_periods[i][2] /\ timestamp(slot_end) >= busy_periods[i][1]

\* is_available: no busy period has current_time < busy_end and slot_end > busy_start
is_available(current_time, slot_end, busy_periods) ==
    ~\E i \in 1..Len(busy_periods) :
        timestamp(current_time) < busy_periods[i][2] /\ timestamp(slot_end) > busy_periods[i][1]

\* the dict appended for an available candidate, its end one stride after its start
make_slot_one_stride(current_time, duration_minutes) ==
    LET slot_end == plus_minutes(current_time, SlotIntervalMinutes) IN
    [start |-> strftime_HM(current_time), end |-> strftime_HM(slot_end),
     start_datetime |-> current_time, end_datetime |-> slot_end]

\* the dict appended for an available candidate
make_slot(current_time, duration_minutes) ==
    LET slot_end == plus_minutes(current_time, duration_minutes) IN
    [start |-> strftime_HM(current_time), end |-> strftime_HM(slot_end),
     start_datetime |-> current_time, end_datetime |-> slot_end]

\* the loop of _generate_available_slots running while current_time < end_datetime
RECURSIVE generate_from_past_close(_, _, _, _, _)
generate_from_past_close(current_time, end_datetime, busy_periods, duration_minutes, available_slots) ==
    IF ~(timestamp(current_time) < timestamp(end_datetime))
    THEN available_slots
    ELSE With(make_slot(current_time, duration_minutes),
              LAMBDA slot :
                  With(IF is_available(current_time, slot.end_datetime, busy_periods)
                       THEN Append(available_slots, slot) ELSE available_slots,
                       LAMBDA next_slots :
                           With(plus_minutes(current_time, SlotIntervalMinutes),
                                LAMBDA next_time :
                                    generate_from_past_close(next_time, end_datetime, busy_periods,
                                                             duration_minutes, next_slots))))

\* the loop of _generate_available_slots
RECURSIVE generate_from(_, _, _, _, _)
generate_from(current_time, end_datetime, busy_periods, duration_minutes, available_slots) ==
    IF ~(timestamp(plus_minutes(current_time, duration_minutes)) <= timestamp(end_datetime))
    THEN available_slots
    ELSE With(make_slot(current_time, duration_minutes),
              LAMBDA slot :
                  With(IF is_available(current_time, slot.end_datetime, busy_periods)
                       THEN Append(available_slots, slot) ELSE available_slots,
                       LAMBDA next_slots :
                           With(plus_minutes(current_time, SlotIntervalMinutes),
                                LAMBDA next_time :
                                    generate_from(next_time, end_datetime, busy_periods,
                                                  duration_minutes, next_slots))))

\* _generate_available_slots
_generate_available_slots(start_datetime, end_datetime, busy_periods, duration_minutes) ==
    generate_from(start_datetime, end_datetime, busy_periods, duration_minutes, <<>>)

\* get_available_slots
get_available_slots(cal, listOk, date, service_duration_minutes) ==
    LET hours == business_hours(weekday(date)) IN
    IF hours = None THEN <<>>
    ELSE LET start_datetime == combine(date, hours[1])
             end_datetime == combine(date, hours[2])
         IN  With(_get_busy_periods(cal, listOk, start_datetime, end_datetime),
                  LAMBDA busy_periods :
                      _generate_available_slots(start_datetime, end_datetime, busy_periods,
                                                service_duration_minutes))

(***************************************************************************)
(* create_appointment.  The remote insert turns the local dateTime text    *)
(* and the timeZone of the event body into the instants it stores.         *)
(***************************************************************************)
\* the instant of a '%Y-%m-%dT%H:%M:%S' text read in timeZone Europe/Paris
remote_instant(g) ==
    DaysFromCivil(g.date) * 86400 + g.H * 3600 + g.M * 60 + g.S - UtcOffset(g.date)

\* service.events().insert(calendarId, body=event).execute(): the calendar with the event stored
events_insert(cal, event) ==
    cal (+) SetToBag({[start |-> remote_instant(event.start), end |-> remote_instant(event.end)]})

\* create_appointment returning the appointment although the insert raised
create_appointment_reports_on_failure(cal, insertOk, start_time, end_time, patient_name, service_type, patient_email, patient_phone) ==
    IF timestamp(start_time) >= timestamp(end_time)
    THEN [ret |-> None, cal |-> cal, sent |-> <<>>]
    ELSE LET event == [start |-> format_datetime_for_google(start_time),
                       end |-> format_datetime_for_google(end_time)]
         IN  [ret |-> [id |-> BagCardinality(cal) + 1,
                       start |-> strftime_YmdHM(start_time), end |-> strftime_YmdHM(end_time),
                       patient |-> patient_name, service |-> service_type],
              cal |-> IF insertOk THEN events_insert(cal, event) ELSE cal,
              sent |-> <<event>>]

\* create_appointment reporting the start time as the end
create_appointment_end_is_start(cal, insertOk, start_time, end_time, patient_name, service_type, patient_email, patient_phone) ==
    IF timestamp(start_time) >= timestamp(end_time)
    THEN [ret |-> None, cal |-> cal, sent |-> <<>>]
    ELSE LET event == [start |-> format_datetime_for_google(start_time),
                       end |-> format_datetime_for_google(end_time)]
         IN  IF insertOk
             THEN [ret |-> [id |-> BagCardinality(cal) + 1,
                            start |-> strftime_YmdHM(start_time), end |-> strftime_YmdHM(start_time),
                            patient |-> patient_name, service |-> service_type],
                   cal |-> events_insert(cal, event), sent |-> <<event>>]
             ELSE [ret |-> None, cal |-> cal, sent |-> <<event>>]

\* create_appointment without its start_time >= end_time test
create_appointment_no_validation(cal, insertOk, start_time, end_time, patient_name, service_type, patient_email, patient_phone) ==
    LET event == [start |-> format_datetime_for_google(start_time),
                  end |-> format_datetime_for_google(end_time)]
    IN  IF insertOk
        THEN [ret |-> [id |-> BagCardinality(cal) + 1,
                       start |-> strftime_YmdHM(start_time), end |-> strftime_YmdHM(end_time),
                       patient |-> patient_name, service |-> service_type],
              cal |-> events_insert(cal, event), sent |-> <<event>>]
        ELSE [ret |-> None, cal |-> cal, sent |-> <<event>>]

\* create_appointment: [ret: the appointment or None, cal: the remote calendar afterwards,
\* sent: the event bodies sent to the remote insert]
create_appointment(cal, insertOk, start_time, end_time, patient_name, service_type, patient_email, patient_phone) ==
    IF timestamp(start_time) >= timestamp(end_time)
    THEN [ret |-> None, cal |-> cal, sent |-> <<>>]
    ELSE LET event == [start |-> format_datetime_for_google(start_time),
                       end |-> format_datetime_for_google(end_time)]
         IN  IF insertOk
             THEN [ret |-> [id |-> BagCardinality(cal) + 1,
                            start |-> strftime_YmdHM(start_time), end |-> strftime_YmdHM(end_time),
                            patient |-> patient_name, service |-> service_type],
                   cal |-> events_insert(cal, event), sent |-> <<event>>]
             ELSE [ret |-> None, cal |-> cal, sent |-> <<event>>]

(***************************************************************************)
(* AppointmentProcessor.  appointment_state is the session dict.           *)
(***************************************************************************)
\* process_appointment_request without its try/except: the ValueError of _parse_date escapes
process_appointment_request_no_except(state, cal, listOk, date_str, service_type) ==
    With(_parse_date(date_str), LAMBDA date :
    IF date = None
    THEN [ret |-> <<>>, state |-> state, raised |-> TRUE, lists |-> 0]
    ELSE With(_get_service_duration(service_type), LAMBDA duration :
         With(get_available_slots(cal, listOk, date, duration), LAMBDA available_slots :
              [ret |-> available_slots,
               state |-> [date |-> date, service_type |-> service_type,
                          available_slots |-> available_slots, duration |-> duration],
               raised |-> FALSE,
               lists |-> IF business_hours(weekday(date)) = None THEN 0 ELSE 1])))

\* process_appointment_request updating the session key by key, the service type of an
\* earlier search being kept
process_appointment_request_keeps_service(state, cal, listOk, date_str, service_type) ==
    With(_parse_date(date_str), LAMBDA date :
    IF date = None
    THEN [ret |-> <<>>, state |-> state, raised |-> FALSE, lists |-> 0]
    ELSE With(_get_service_duration(service_type), LAMBDA duration :
         With(get_available_slots(cal, listOk, date, duration), LAMBDA available_slots :
              [ret |-> available_slots,
               state |-> [date |-> date,
                          service_type |-> get(state, "service_type", service_type),
                          available_slots |-> available_slots, duration |-> duration],
               raised |-> FALSE,
               lists |-> IF business_hours(weekday(date)) = None THEN 0 ELSE 1])))

\* process_appointment_request: [ret: the slots returned, state: appointment_state afterwards,
\* raised: an exception left the method, lists: the remote listings issued]
process_appointment_request(state, cal, listOk, date_str, service_type) ==
    With(_parse_date(date_str), LAMBDA date :
    IF date = None
    THEN [ret |-> <<>>, state |-> state, raised |-> FALSE, lists |-> 0]
    ELSE With(_get_service_duration(service_type), LAMBDA duration :
         With(get_available_slots(cal, listOk, date, duration), LAMBDA available_slots :
              [ret |-> available_slots,
               state |-> [date |-> date, service_type |-> service_type,
                          available_slots |-> available_slots, duration |-> duration],
               raised |-> FALSE,
               lists |-> IF business_hours(weekday(date)) = None THEN 0 ELSE 1])))

\* the line of the summary for one slot
slot_line(slot) ==
    [start |-> slot.start, end |-> slot.end,
     start_ts |-> timestamp(slot.start_datetime), end_ts |-> timestamp(slot.end_datetime)]

\* the response of _handle_check_availability for the slots returned
check_response(slots, date_str, service_type) ==
    IF slots # <<>>
    THEN LET shown == SubSeq(slots, 1, IF Len(slots) < SummaryLimit THEN Len(slots) ELSE SummaryLimit) IN
         [kind |-> "slots", date_str |-> date_str, service_type |-> service_type,
          lines |-> [i \in 1..Len(shown) |-> slot_line(shown[i])]]
    ELSE [kind |-> "none", date_str |-> date_str]

\* _handle_check_availability: msgs are the messages added to llm_context
_handle_check_availability(state, cal, listOk, date_str, service_type) ==
    With(process_appointment_request(state, cal, listOk, date_str, service_type), LAMBDA r :
    [state |-> r.state, ret |-> r.ret, raised |-> r.raised, lists |-> r.lists,
     msgs |-> IF r.raised THEN <<>> ELSE <<check_response(r.ret, date_str, service_type)>>])

\* the incomplete-state test dropped
incomplete_never(service_type, slots) == FALSE

\* not service_type or not slots
incomplete(service_type, slots) ==
    service_type = NoneStr \/ service_type = "" \/ slots = <<>>

\* the tolerance test made on the start only
slot_matches_start_only(slot, start, end) ==
    LET ds == timestamp(slot.start_datetime) - start IN
    (IF ds < 0 THEN -ds ELSE ds) < Tolerance

\* the tolerance test with a tolerance of one stride, bounds included
slot_matches_within_stride(slot, start, end) ==
    LET ds == timestamp(slot.start_datetime) - start
        de == timestamp(slot.end_datetime) - end
    IN  /\ (IF ds < 0 THEN -ds ELSE ds) <= SlotIntervalMinutes * 60
        /\ (IF de < 0 THEN -de ELSE de) <= SlotIntervalMinutes * 60

\* abs(slot start - start) < 60 and abs(slot end - end) < 60
slot_matches(slot, start, end) ==
    LET ds == timestamp(slot.start_datetime) - start
        de == timestamp(slot.end_datetime) - end
    IN  (IF ds < 0 THEN -ds ELSE ds) < Tolerance /\ (IF de < 0 THEN -de ELSE de) < Tolerance

\* next((slot for slot in slots if ...), None)
select_slot(slots, start, end) ==
    LET idx == {i \in 1..Len(slots) : slot_matches(slots[i], start, end)} IN
    IF idx = {} THEN None ELSE slots[CHOOSE i \in idx : \A j \in idx : i <= j]

\* book_appointment emptying the session when the booking fails
book_appointment_clears_on_failure(state, cal, insertOk, start, end, patient_info) ==
    LET service_type == get(state, "service_type", NoneStr)
        slots == get(state, "available_slots", <<>>)
    IN
    IF incomplete(service_type, slots)
    THEN [ret |-> None, path |-> "incomplete", state |-> <<>>,
          cal |-> cal, sent |-> <<>>, slot |-> None, raised |-> FALSE]
    ELSE With(select_slot(slots, start, end), LAMBDA selected_slot :
         IF selected_slot = None
         THEN [ret |-> None, path |-> "not_found", state |-> <<>>,
               cal |-> cal, sent |-> <<>>, slot |-> None, raised |-> FALSE]
         ELSE With(create_appointment(cal, insertOk,
                           selected_slot.start_datetime, selected_slot.end_datetime,
                           get(patient_info, "name", ""), service_type,
                           get(patient_info, "email", NoneStr), get(patient_info, "phone", NoneStr)),
                   LAMBDA a :
                  IF a.ret # None
                  THEN [ret |-> [start |-> a.ret.start, end |-> a.ret.end,
                                 patient |-> a.ret.patient, service |-> a.ret.service],
                        path |-> "booked", state |-> state,
                        cal |-> a.cal, sent |-> a.sent, slot |-> selected_slot,
                        raised |-> FALSE]
                  ELSE [ret |-> None, path |-> "create_failed", state |-> <<>>,
                        cal |-> a.cal, sent |-> a.sent, slot |-> selected_slot,
                        raised |-> FALSE]))

\* book_appointment taking the booked slot out of the session
book_appointment_consumes_slot(state, cal, insertOk, start, end, patient_info) ==
    LET service_type == get(state, "service_type", NoneStr)
        slots == get(state, "available_slots", <<>>)
    IN
    IF incomplete(service_type, slots)
    THEN [ret |-> None, path |-> "incomplete", state |-> state,
          cal |-> cal, sent |-> <<>>, slot |-> None, raised |-> FALSE]
    ELSE With(select_slot(slots, start, end), LAMBDA selected_slot :
         IF selected_slot = None
         THEN [ret |-> None, path |-> "not_found", state |-> state,
               cal |-> cal, sent |-> <<>>, slot |-> None, raised |-> FALSE]
         ELSE With(create_appointment(cal, insertOk,
                           selected_slot.start_datetime, selected_slot.end_datetime,
                           get(patient_info, "name", ""), service_type,
                           get(patient_info, "email", NoneStr), get(patient_info, "phone", NoneStr)),
                   LAMBDA a :
                  IF a.ret # None
                  THEN [ret |-> [start |-> a.ret.start, end |-> a.ret.end,
                                 patient |-> a.ret.patient, service |-> a.ret.service],
                        path |-> "booked",
                        state |-> [state EXCEPT !.available_slots =
                                      SelectSeq(slots, LAMBDA slot : slot # selected_slot)],
                        cal |-> a.cal, sent |-> a.sent, slot |-> selected_slot,
                        raised |-> FALSE]
                  ELSE [ret |-> None, path |-> "create_failed", state |-> state,
                        cal |-> a.cal, sent |-> a.sent, slot |-> selected_slot,
                        raised |-> FALSE]))

\* book_appointment: [ret: the confirmation or None, path: the return taken, state and cal
\* afterwards, sent: the event bodies sent to the remote insert, slot: the slot selected, raised]
book_appointment(state, cal, insertOk, start, end, patient_info) ==
    LET service_type == get(state, "service_type", NoneStr)
        slots == get(state, "available_slots", <<>>)
    IN
    IF incomplete(service_type, slots)
    THEN [ret |-> None, path |-> "incomplete", state |-> state,
          cal |-> cal, sent |-> <<>>, slot |-> None, raised |-> FALSE]
    ELSE With(select_slot(slots, start, end), LAMBDA selected_slot :
         IF selected_slot = None
         THEN [ret |-> None, path |-> "not_found", state |-> state,
               cal |-> cal, sent |-> <<>>, slot |-> None, raised |-> FALSE]
         ELSE With(create_appointment(cal, insertOk,
                           selected_slot.start_datetime, selected_slot.end_datetime,
                           get(patient_info, "name", ""), service_type,
                           get(patient_info, "email", NoneStr), get(patient_info, "phone", NoneStr)),
                   LAMBDA a :
                  IF a.ret # None
                  THEN [ret |-> [start |-> a.ret.start, end |-> a.ret.end,
                                 patient |-> a.ret.patient, service |-> a.ret.service],
                        path |-> "booked", state |-> state,
                        cal |-> a.cal, sent |-> a.sent, slot |-> selected_slot,
                        raised |-> FALSE]
                  ELSE [ret |-> None, path |-> "create_failed", state |-> state,
                        cal |-> a.cal, sent |-> a.sent, slot |-> selected_slot,
                        raised |-> FALSE]))

\* the response of _handle_book_appointment for the appointment returned
book_response(appointment) ==
    IF appointment # None
    THEN [kind |-> "confirmed", service |-> appointment.service,
          start |-> appointment.start, patient |-> appointment.patient]
    ELSE [kind |-> "failed"]

\* _handle_book_appointment
_handle_book_appointment(state, cal, insertOk, start, end, patient_info) ==
    With(book_appointment(state, cal, insertOk, start, end, patient_info), LAMBDA r :
    [state |-> r.state, cal |-> r.cal, ret |-> r.ret, path |-> r.path, raised |-> r.raised,
     sent |-> r.sent, slot |-> r.slot,
     msgs |-> IF r.raised THEN <<>> ELSE <<book_response(r.ret)>>])

(***************************************************************************)
(* The conversation.  The language model issues one tool call at a time;   *)
(* the handler runs, and the model's next turn starts from the context the *)
(* handler queued.  last describes the tool call being answered.           *)
(***************************************************************************)
VARIABLES
    appointment_state,  \* self.appointment_state
    calendar,           \* the events of the remote calendar
    checked,            \* checkAvailability has been called in this conversation
    last,               \* the tool call being answered: its arguments and what it did
    gen,                \* a run of slot generation on given periods: inputs and results
    loop                \* the event loop: the tool calls in progress and their remote calls

vars == <<appointment_state, calendar, checked, last, gen, loop>>

Monday == [y |-> 2024, m |-> 7, d |-> 15]

\* "15/07/2024", "2024-07-20" (a Saturday), "31/02/2024" (no such day)
DateTexts ==
    { [sep |-> "/", tok |-> <<Num(15, 2), Num(7, 2), Num(2024, 4)>>],
      [sep |-> "-", tok |-> <<Num(2024, 4), Num(7, 2), Num(20, 2)>>],
      [sep |-> "/", tok |-> <<Num(31, 2), Num(2, 2), Num(2024, 4)>>] }

ServiceTexts == {"contrôle", "Nettoyage", ""}

PatientInfos ==
    { [name |-> "Dupont", phone |-> "0600000000"],
      [name |-> "Martin", phone |-> "0611111111", email |-> "martin@example.org"] }

\* the instant of a wall-clock time of a date
At(date, h, m, sec) == timestamp([date |-> date, sec |-> h * 3600 + m * 60 + sec])

\* an event of the Monday, from h1:m1:s1 to h2:m2:s2
Event(h1, m1, s1, h2, m2, s2) ==
    [start |-> At(Monday, h1, m1, s1), end |-> At(Monday, h2, m2, s2)]

\* the remote calendar when the conversation starts
InitCalendars ==
    { SetToBag(events) :
        events \in { {},
                     {Event(9, 10, 0, 9, 40, 0)},
                     {Event(9, 40, 0, 10, 0, 1)} } }

\* how far, in seconds, a book request lies from the start and the end it aims at
OffsetPairs ==
    { <<0, 0>>, <<59, 59>>, <<-59, -59>>, <<59, -59>>, <<-30, 0>>,
      <<60, 0>>, <<0, 60>>, <<-60, 0>>, <<0, -60>>, <<120, 120>> }

\* the (start, end) pairs of book requests: near a stride candidate of the Monday
BookRequests ==
    { <<At(Monday, OpenHour, 0, 0) + k * SlotIntervalMinutes * 60 + o[1],
        At(Monday, OpenHour, 0, 0) + k * SlotIntervalMinutes * 60 + dur * 60 + o[2]>> :
          k \in 0..MaxAnchor, dur \in {30, 45, 60}, o \in OffsetPairs }

NoCall ==
    [op |-> "none", date_str |-> None, service_type |-> NoneStr, start |-> 0, end |-> 0,
     patient_info |-> None, remoteOk |-> TRUE, before |-> <<>>, checkedBefore |-> FALSE,
     ret |-> None, path |-> "none", lists |-> 0, sent |-> <<>>, created |-> EmptyBag,
     slot |-> None, raised |-> FALSE, msgs |-> <<>>]

NoGen == [phase |-> "none", duration |-> 0, raw |-> <<>>, merged |-> <<>>, slots |-> <<>>]

\* no tool call in progress: blocked is TRUE while a synchronous call holds the loop's
\* thread, frames counts the frames processed since a remote call was last issued
Idle == [blocked |-> FALSE, frames |-> 0, check |-> None, book |-> None]

Init ==
    /\ appointment_state = <<>>
    /\ calendar \in InitCalendars
    /\ checked = FALSE
    /\ last = NoCall
    /\ gen = NoGen
    /\ loop = Idle

\* handle_check_availability; last.remoteOk records whether the remote call worked, and is
\* TRUE when none was made
CheckAvailability(date_str, service_type, listOk) ==
    /\ last.op = "none"
    /\ \E r \in {_handle_check_availability(appointment_state, calendar, listOk, date_str, service_type)} :
        /\ appointment_state' = r.state
        /\ last' = [NoCall EXCEPT !.op = "checkAvailability", !.date_str = date_str,
                                  !.service_type = service_type,
                                  !.remoteOk = (listOk \/ r.lists = 0),
                                  !.before = appointment_state, !.checkedBefore = checked,
                                  !.ret = r.ret,
                                  !.path = IF _parse_date(date_str) = None
                                           THEN "parse_error" ELSE "searched",
                                  !.lists = r.lists, !.raised = r.raised, !.msgs = r.msgs]
    /\ checked' = TRUE
    /\ UNCHANGED <<calendar, gen, loop>>

\* handle_book_appointment
BookAppointment(start, end, patient_info, insertOk) ==
    /\ last.op = "none"
    /\ \E r \in {_handle_book_appointment(appointment_state, calendar, insertOk, start, end, patient_info)} :
        /\ BagCardinality(r.cal) <= MaxEvents
        /\ appointment_state' = r.state
        /\ calendar' = r.cal
        /\ last' = [NoCall EXCEPT !.op = "bookAppointment", !.start = start, !.end = end,
                                  !.patient_info = patient_info,
                                  !.remoteOk = (insertOk \/ r.sent = <<>>),
                                  !.before = appointment_state, !.checkedBefore = checked,
                                  !.ret = r.ret, !.path = r.path, !.sent = r.sent,
                                  !.created = r.cal (-) calendar, !.slot = r.slot,
                                  !.raised = r.raised, !.msgs = r.msgs]
    /\ UNCHANGED <<checked, gen, loop>>

\* _auto_continue: the context frame is queued and the model takes its next turn
NextTurn ==
    /\ last.op # "none"
    /\ last' = NoCall
    /\ UNCHANGED <<appointment_state, calendar, checked, gen, loop>>

Next ==
    \/ \E date_str \in DateTexts, service_type \in ServiceTexts, listOk \in BOOLEAN :
           CheckAvailability(date_str, service_type, listOk)
    \/ \E req \in BookRequests, patient_info \in PatientInfos, insertOk \in BOOLEAN :
           BookAppointment(req[1], req[2], patient_info, insertOk)
    \/ NextTurn

Spec == Init /\ [][Next]_vars

(***************************************************************************)
(* Slot generation on its own: periods drawn from a pool are merged, then  *)
(* slots are generated for the Monday's business hours.                    *)
(***************************************************************************)
MaxPeriods == 2   \* busy periods given to one run

\* (start, end) periods of the Monday
Period(h1, m1, s1, h2, m2, s2) == <<At(Monday, h1, m1, s1), At(Monday, h2, m2, s2)>>

PeriodPool ==
    { Period(8, 30, 0, 9, 15, 0), Period(9, 10, 0, 9, 40, 0), Period(9, 40, 0, 10, 0, 1),
      Period(10, 30, 0, 11, 0, 0), Period(9, 0, 0, 12, 0, 0), Period(16, 0, 0, 18, 0, 0),
      Period(10, 0, 0, 11, 0, 0) }

PeriodLists == UNION {[1..n -> PeriodPool] : n \in 0..MaxPeriods}

InitSlots ==
    /\ appointment_state = <<>>
    /\ calendar = EmptyBag
    /\ checked = FALSE
    /\ last = NoCall
    /\ loop = Idle
    /\ \E raw \in PeriodLists, duration \in {30, 45, 60, 90} :
           gen = [NoGen EXCEPT !.phase = "periods", !.raw = raw, !.duration = duration]

\* _get_busy_periods merges the periods it collected
MergePeriods ==
    /\ gen.phase = "periods"
    /\ gen' = [gen EXCEPT !.phase = "merged", !.merged = _merge_overlapping_periods(gen.raw)]
    /\ UNCHANGED <<appointment_state, calendar, checked, last, loop>>

\* get_available_slots generates the slots of the day around the merged periods
GenerateSlots ==
    /\ gen.phase = "merged"
    /\ gen' = [gen EXCEPT !.phase = "slots",
                          !.slots = _generate_available_slots(
                                        combine(Monday, business_hours(weekday(Monday))[1]),
                                        combine(Monday, business_hours(weekday(Monday))[2]),
                                        gen.merged, gen.duration)]
    /\ UNCHANGED <<appointment_state, calendar, checked, last, loop>>

NextSlots == MergePeriods \/ GenerateSlots

SpecSlots == InitSlots /\ [][NextSlots]_vars

(***************************************************************************)
(* create_appointment called on its own, with any start and end times.     *)
(***************************************************************************)
\* the start_time and end_time values: 09:00, 09:30, 10:00 and 10:30 of the Monday
CreateTimes == {[date |-> Monday, sec |-> OpenHour * 3600 + k * SlotIntervalMinutes * 60] : k \in 0..3}

\* create_appointment
CreateAppointment(start_time, end_time, patient_info, insertOk) ==
    /\ last.op = "none"
    /\ \E r \in {create_appointment(calendar, insertOk, start_time, end_time,
                                     get(patient_info, "name", ""), "contrôle",
                                     get(patient_info, "email", NoneStr),
                                     get(patient_info, "phone", NoneStr))} :
        /\ BagCardinality(r.cal) <= MaxEvents
        /\ calendar' = r.cal
        /\ last' = [NoCall EXCEPT !.op = "createAppointment",
                                  !.start = timestamp(start_time), !.end = timestamp(end_time),
                                  !.patient_info = patient_info, !.remoteOk = insertOk,
                                  !.ret = r.ret, !.sent = r.sent,
                                  !.created = r.cal (-) calendar]
    /\ UNCHANGED <<appointment_state, checked, gen, loop>>

NextCreate ==
    \/ \E start_time \in CreateTimes, end_time \in CreateTimes,
          patient_info \in PatientInfos, insertOk \in BOOLEAN :
           CreateAppointment(start_time, end_time, patient_info, insertOk)
    \/ NextTurn

SpecCreate == Init /\ [][NextCreate]_vars

(***************************************************************************)
(* Searches alone, for service types of every kind: a keyword of the       *)
(* table, in upper case, two keywords, no keyword, no text.                *)
(***************************************************************************)
CatalogTexts ==
    {"contrôle", "Nettoyage", "", "couronne et carie", "détartrage", "CONTRÔLE", "Extraction canal"}

NextSearch ==
    \/ \E date_str \in DateTexts, service_type \in CatalogTexts, listOk \in BOOLEAN :
           CheckAvailability(date_str, service_type, listOk)
    \/ NextTurn

SpecSearch == Init /\ [][NextSearch]_vars

(***************************************************************************)
(* The tool calls as coroutines of one event loop.  A handler runs on the  *)
(* loop's thread until it awaits something that suspends it.  The listing  *)
(* is executed by the coroutine itself: until it returns, the loop's       *)
(* thread runs nothing else.  The insert is handed to a worker thread with *)
(* asyncio.to_thread: book is suspended and the loop runs other work.      *)
(***************************************************************************)
MaxFrames == 1   \* frames processed while one remote call is pending

\* the service types searched for here
AsyncServiceTexts == {"contrôle", "Nettoyage"}

\* the candidates the book requests made here aim at: the first two of the day, so that
\* a 45-minute slot at the first overlaps every slot at the second
AsyncAnchors == {0, 1}

\* the (start, end) pairs of the book requests made here: the exact bounds of a candidate
AsyncRequests ==
    { <<At(Monday, OpenHour, 0, 0) + k * SlotIntervalMinutes * 60,
        At(Monday, OpenHour, 0, 0) + k * SlotIntervalMinutes * 60 + dur * 60>> :
          k \in AsyncAnchors, dur \in {30, 45} }

\* the patient of the book requests made here
AsyncPatients == {patient_info \in PatientInfos : "email" \in DOMAIN patient_info}

\* the conversation starts on an empty calendar
InitAsync == Init /\ calendar = EmptyBag

\* get_available_slots reaches the listing: the date parses and the office is open
NeedsListing(date_str) ==
    /\ _parse_date(date_str) # None
    /\ business_hours(weekday(_parse_date(date_str))) # None

\* book_appointment reaches create_appointment: the session is complete and a slot matches
ReachesCreate(state, start, end) ==
    /\ ~incomplete(get(state, "service_type", NoneStr), get(state, "available_slots", <<>>))
    /\ select_slot(get(state, "available_slots", <<>>), start, end) # None

\* handle_check_availability up to events().list(...).execute(), which holds the thread
CheckStart(date_str, service_type, listOk) ==
    /\ ~loop.blocked /\ loop.check = None /\ last.op = "none"
    /\ NeedsListing(date_str)
    /\ loop' = [loop EXCEPT !.blocked = TRUE, !.frames = 0,
                            !.check = [date_str |-> date_str, service_type |-> service_type,
                                       listOk |-> listOk]]
    /\ UNCHANGED <<appointment_state, calendar, checked, last, gen>>

\* handle_check_availability when no listing is made: it runs to its end
CheckDirect(date_str, service_type) ==
    /\ ~loop.blocked /\ ~NeedsListing(date_str)
    /\ CheckAvailability(date_str, service_type, TRUE)

\* the listing returns (or raises): the slots are generated, the session is assigned and
\* the response is added
CheckFinish ==
    /\ loop.check # None
    /\ \E r \in {_handle_check_availability(appointment_state, calendar, loop.check.listOk,
                                             loop.check.date_str, loop.check.service_type)} :
        /\ appointment_state' = r.state
        /\ last' = [NoCall EXCEPT !.op = "checkAvailability", !.date_str = loop.check.date_str,
                                  !.service_type = loop.check.service_type,
                                  !.remoteOk = loop.check.listOk,
                                  !.before = appointment_state, !.checkedBefore = checked,
                                  !.ret = r.ret, !.path = "searched",
                                  !.lists = r.lists, !.raised = r.raised, !.msgs = r.msgs]
    /\ checked' = TRUE
    /\ loop' = [loop EXCEPT !.blocked = FALSE, !.check = None,
                            !.frames = IF loop.book = None THEN 0 ELSE loop.frames]
    /\ UNCHANGED <<calendar, gen>>

\* handle_book_appointment up to await asyncio.to_thread(_create_event): the session has
\* been read and the slot selected
BookStart(start, end, patient_info, insertOk) ==
    /\ ~loop.blocked /\ loop.book = None /\ last.op = "none"
    /\ ReachesCreate(appointment_state, start, end)
    /\ BagCardinality(calendar) < MaxEvents
    /\ loop' = [loop EXCEPT !.frames = 0,
                            !.book = [phase |-> "inserting", start |-> start, end |-> end,
                                      patient_info |-> patient_info, insertOk |-> insertOk,
                                      before |-> appointment_state,
                                      checkedBefore |-> checked,
                                      result |-> None, created |-> EmptyBag]]
    /\ UNCHANGED <<appointment_state, calendar, checked, last, gen>>

\* handle_book_appointment when book_appointment returns before create_appointment: no
\* insert is made
BookDirect(start, end, patient_info) ==
    /\ ~loop.blocked /\ ~ReachesCreate(appointment_state, start, end)
    /\ BookAppointment(start, end, patient_info, TRUE)

\* _create_event on the worker thread: the insert is executed, for the slot book selected
InsertDone ==
    /\ loop.book # None /\ loop.book.phase = "inserting" /\ last.op = "none"
    /\ \E r \in {_handle_book_appointment(loop.book.before, calendar, loop.book.insertOk,
                                           loop.book.start, loop.book.end,
                                           loop.book.patient_info)} :
        /\ calendar' = r.cal
        /\ loop' = [loop EXCEPT !.book.phase = "inserted", !.book.result = r,
                                !.book.created = r.cal (-) calendar]
    /\ UNCHANGED <<appointment_state, checked, last, gen>>

\* book_appointment resumes with the result of the insert and the response is added
BookResume ==
    /\ ~loop.blocked /\ loop.book # None /\ loop.book.phase = "inserted" /\ last.op = "none"
    /\ last' = [NoCall EXCEPT !.op = "bookAppointment",
                              !.start = loop.book.start, !.end = loop.book.end,
                              !.patient_info = loop.book.patient_info,
                              !.remoteOk = loop.book.insertOk,
                              !.before = loop.book.before,
                              !.checkedBefore = loop.book.checkedBefore,
                              !.ret = loop.book.result.ret, !.path = loop.book.result.path,
                              !.sent = loop.book.result.sent, !.created = loop.book.created,
                              !.slot = loop.book.result.slot,
                              !.raised = loop.book.result.raised,
                              !.msgs = loop.book.result.msgs]
    /\ loop' = [loop EXCEPT !.book = None, !.frames = 0]
    /\ UNCHANGED <<appointment_state, calendar, checked, gen>>

\* process_frame, for a frame that arrives while a remote call is pending
ProcessFrame ==
    /\ ~loop.blocked /\ loop.frames < MaxFrames
    /\ loop.check # None \/ loop.book # None
    /\ loop' = [loop EXCEPT !.frames = loop.frames + 1]
    /\ UNCHANGED <<appointment_state, calendar, checked, last, gen>>

NextAsync ==
    \/ \E date_str \in DateTexts, service_type \in AsyncServiceTexts, listOk \in BOOLEAN :
           CheckStart(date_str, service_type, listOk)
    \/ \E date_str \in DateTexts, service_type \in AsyncServiceTexts :
           CheckDirect(date_str, service_type)
    \/ CheckFinish
    \/ \E req \in AsyncRequests, patient_info \in AsyncPatients, insertOk \in BOOLEAN :
           BookStart(req[1], req[2], patient_info, insertOk)
    \/ \E req \in AsyncRequests, patient_info \in AsyncPatients :
           BookDirect(req[1], req[2], patient_info)
    \/ InsertDone
    \/ BookResume
    \/ ProcessFrame
    \/ NextTurn

SpecAsync == InitAsync /\ [][NextAsync]_vars

(***************************************************************************)
(* Properties.                                                             *)
(***************************************************************************)
\* a and b are less than n apart
Near(a, b, n) == a - b < n /\ b - a < n

\* the slots the session held when the tool call started
SlotsBefore == get(last.before, "available_slots", <<>>)

\* the slots the session holds
SlotsNow == get(appointment_state, "available_slots", <<>>)

\* the event the remote calendar stores for a slot
EventOf(slot) ==
    [start |-> timestamp(slot.start_datetime), end |-> timestamp(slot.end_datetime)]

\* both bounds of the request are less than n seconds from the slot's
Within(slot, n) ==
    /\ Near(timestamp(slot.start_datetime), last.start, n)
    /\ Near(timestamp(slot.end_datetime), last.end, n)

IsBook == last.op = "bookAppointment"
IsCheck == last.op = "checkAvailability"

\* C1: book sends a remote create only when the session holds a slot and the request
\* matches an offered slot within the tolerance on both bounds; the event sent, and the
\* event the calendar stores, have exactly that slot's start and end; the calendar
\* changes by nothing else.
C1_CreateOnlyForOfferedSlot ==
    IsBook =>
        /\ Len(last.sent) <= 1
        /\ last.sent # <<>> =>
            /\ SlotsBefore # <<>>
            /\ \E i \in 1..Len(SlotsBefore) :
                /\ Within(SlotsBefore[i], Tolerance)
                /\ remote_instant(last.sent[1].start) = EventOf(SlotsBefore[i]).start
                /\ remote_instant(last.sent[1].end) = EventOf(SlotsBefore[i]).end
                /\ last.created \in {EmptyBag, SetToBag({EventOf(SlotsBefore[i])})}
        /\ last.sent = <<>> => last.created = EmptyBag

\* a booking was created for a request that is not the slot's exact bounds
C1_Witness ==
    /\ IsBook /\ last.sent # <<>> /\ last.created # EmptyBag
    /\ \E i \in 1..Len(SlotsBefore) :
        /\ Within(SlotsBefore[i], Tolerance)
        /\ last.start # timestamp(SlotsBefore[i].start_datetime)

\* C2: book returns a confirmation, and the conversation gets the confirmation message,
\* only when the remote create was sent and succeeded; when no create is sent or the
\* remote insert fails, book returns None, the failure message is delivered and the
\* calendar is unchanged.
C2_ConfirmationOnlyAfterCreate ==
    IsBook =>
        /\ last.ret # None =>
            (last.sent # <<>> /\ last.remoteOk /\ BagCardinality(last.created) = 1)
        /\ (last.sent = <<>> \/ ~last.remoteOk) =>
            (last.ret = None /\ last.created = EmptyBag /\ last.msgs = <<[kind |-> "failed"]>>)
        /\ \A i \in 1..Len(last.msgs) :
            last.msgs[i].kind = "confirmed" => (last.ret # None /\ last.created # EmptyBag)

\* the remote insert of a matched slot failed
C2_Witness ==
    IsBook /\ last.sent # <<>> /\ ~last.remoteOk /\ last.ret = None

\* C3: every generated slot is disjoint (half-open) from every merged busy period and
\* from every raw period the merged ones came from.
C3_SlotsDisjointFromBusy ==
    gen.phase = "slots" =>
        \A i \in 1..Len(gen.slots) :
            /\ \A j \in 1..Len(gen.merged) :
                ~(EventOf(gen.slots[i]).start < gen.merged[j][2]
                  /\ EventOf(gen.slots[i]).end > gen.merged[j][1])
            /\ \A j \in 1..Len(gen.raw) :
                ~(EventOf(gen.slots[i]).start < gen.raw[j][2]
                  /\ EventOf(gen.slots[i]).end > gen.raw[j][1])

\* slots were generated around two raw periods that merged into one
C3_Witness ==
    /\ gen.phase = "slots" /\ gen.slots # <<>>
    /\ Len(gen.raw) = 2 /\ Len(gen.merged) = 1 /\ gen.raw[1] # gen.raw[2]

\* the minutes each service text used resolves to, by the durations table
ExpectedMinutes(service_type) ==
    CASE service_type = "contrôle" -> 30
      [] service_type = "Nettoyage" -> 45
      [] service_type = "" -> 60

\* C4: the slots a checkAvailability call returns last exactly the duration resolved for
\* its service type, and the slots stored in the session last exactly the duration
\* resolved for the service type stored with them.
C4_SlotDurationIsServiceDuration ==
    /\ IsCheck =>
        \A i \in 1..Len(last.ret) :
            timestamp(last.ret[i].end_datetime) - timestamp(last.ret[i].start_datetime)
                = ExpectedMinutes(last.service_type) * 60
    /\ appointment_state # <<>> =>
        /\ appointment_state.duration = ExpectedMinutes(appointment_state.service_type)
        /\ \A i \in 1..Len(SlotsNow) :
            timestamp(SlotsNow[i].end_datetime) - timestamp(SlotsNow[i].start_datetime)
                = appointment_state.duration * 60

\* a 45-minute search stored its slots
C4_Witness ==
    /\ IsCheck /\ last.service_type = "Nettoyage"
    /\ last.ret # <<>> /\ SlotsNow = last.ret

\* C5: with slots in the session, a request within 59 seconds of an offered slot on both
\* bounds is matched, the create is sent and, the remote insert succeeding, the booking
\* is confirmed; a request that no offered slot matches within less than 60 seconds on
\* both bounds fails as slot-not-found and creates nothing.
C5_ToleranceDecides ==
    (IsBook /\ SlotsBefore # <<>>) =>
        /\ (\E i \in 1..Len(SlotsBefore) : Within(SlotsBefore[i], Tolerance))
              => (last.sent # <<>> /\ (last.remoteOk => last.ret # None))
        /\ ~(\E i \in 1..Len(SlotsBefore) : Within(SlotsBefore[i], Tolerance))
              => (last.path = "not_found" /\ last.sent = <<>> /\ last.created = EmptyBag)

\* C6: a book call made before any checkAvailability fails as incomplete, whatever its
\* arguments, and makes no remote call.
C6_BookBeforeCheckIsIncomplete ==
    (IsBook /\ ~last.checkedBefore) =>
        /\ last.path = "incomplete" /\ last.ret = None
        /\ last.sent = <<>> /\ last.lists = 0 /\ last.created = EmptyBag
        /\ last.msgs = <<[kind |-> "failed"]>>

\* book was called first
C6_Witness == IsBook /\ ~last.checkedBefore /\ last.before = <<>>

\* C7: after every checkAvailability call, failed ones included, the session's offered
\* slots are exactly the slots that call produced.
C7_CheckReplacesSession == IsCheck => SlotsNow = last.ret

\* C8: book never modifies the session.
C8_BookLeavesSession == IsBook => appointment_state = last.before

\* a book failed against a session that holds slots
C8_Witness ==
    /\ IsBook /\ last.path \in {"not_found", "create_failed"}
    /\ SlotsBefore # <<>> /\ SlotsNow = SlotsBefore

\* C9: the start and end of a confirmation, and of the event written to the calendar, are
\* those of the offered slot the request matched, not the request's.
C9_ConfirmationCarriesSlotBounds ==
    (IsBook /\ last.ret # None) =>
        \E i \in 1..Len(SlotsBefore) :
            LET slot == SlotsBefore[i] IN
            /\ Within(slot, Tolerance)
            /\ last.ret.start.date = slot.start_datetime.date
            /\ last.ret.start.H * 3600 + last.ret.start.M * 60 = slot.start_datetime.sec
            /\ last.ret.end.date = slot.end_datetime.date
            /\ last.ret.end.H * 3600 + last.ret.end.M * 60 = slot.end_datetime.sec
            /\ last.created = SetToBag({EventOf(slot)})
            /\ last.msgs[1].start = last.ret.start

\* a booking was confirmed for a request 59 seconds before the slot on both bounds
C9_Witness ==
    /\ IsBook /\ last.ret # None
    /\ \E i \in 1..Len(SlotsBefore) :
        /\ last.start = timestamp(SlotsBefore[i].start_datetime) - 59
        /\ last.end = timestamp(SlotsBefore[i].end_datetime) - 59

\* C10: every tool call delivers exactly one message and raises nothing.
C10_OneMessageNoException ==
    last.op # "none" => (Len(last.msgs) = 1 /\ ~last.raised)

\* a checkAvailability whose date did not parse answered with the no-availability message
C10_Witness ==
    /\ IsCheck /\ last.path = "parse_error"
    /\ Len(last.msgs) = 1 /\ last.msgs[1].kind = "none"

\* Saturdays and Sundays
WeekendDates ==
    { [y |-> 2024, m |-> 7, d |-> 20], [y |-> 2024, m |-> 7, d |-> 21],
      [y |-> 2025, m |-> 3, d |-> 1] }

\* the date a checkAvailability call was made for fell on a Saturday or a Sunday
IsWeekendCheck ==
    /\ IsCheck /\ last.path = "searched"
    /\ weekday(_parse_date(last.date_str)) \in {5, 6}

\* C11: for every Saturday or Sunday, whatever the calendar holds, whether the remote
\* listing works and whatever the duration, get_available_slots returns no slot; a
\* checkAvailability for such a date lists nothing remotely, answers with the
\* no-availability message and leaves a session that holds zero slots.
C11_WeekendHasNoSlots ==
    /\ \A date \in WeekendDates, minutes \in {30, 90}, listOk \in BOOLEAN :
           get_available_slots(calendar, listOk, date, minutes) = <<>>
    /\ IsWeekendCheck =>
           /\ last.ret = <<>> /\ last.lists = 0
           /\ last.msgs = <<[kind |-> "none", date_str |-> last.date_str]>>
           /\ appointment_state # <<>> /\ SlotsNow = <<>>

\* a Saturday was searched while the calendar held an event
C11_Witness ==
    /\ IsWeekendCheck /\ calendar # EmptyBag
    /\ appointment_state # <<>> /\ SlotsNow = <<>>

\* C12: merging is idempotent: merging the merged periods again gives the same list.
C12_MergeIdempotent ==
    gen.phase \in {"merged", "slots"} =>
        /\ _merge_overlapping_periods(gen.merged) = gen.merged
        /\ _merge_overlapping_periods(_merge_overlapping_periods(gen.raw))
               = _merge_overlapping_periods(gen.raw)

\* two periods given out of order were merged into one
C12_Witness ==
    /\ gen.phase = "merged" /\ Len(gen.raw) = 2 /\ Len(gen.merged) = 1
    /\ gen.raw[1][1] > gen.raw[2][1]
    /\ _merge_overlapping_periods(gen.merged) = gen.merged

\* C13: create_appointment called with start_time >= end_time returns None, sends no
\* remote insert and leaves the calendar as it was.
C13_InvalidCreateHasNoEffect ==
    [][(last'.op = "createAppointment" /\ last'.start >= last'.end) =>
           (last'.ret = None /\ last'.sent = <<>> /\ calendar' = calendar)]_vars

\* create_appointment was called with equal start and end while the remote insert worked
C13_Witness ==
    /\ last.op = "createAppointment" /\ last.start = last.end /\ last.remoteOk
    /\ last.ret = None /\ last.sent = <<>> /\ last.created = EmptyBag

\* the wall-clock time sec seconds after midnight, as hours and minutes
HourMinute(sec) == [H |-> sec \div 3600, M |-> (sec % 3600) \div 60]

\* the k-th stride-aligned candidate of a day, k counted from 0: it starts k strides
\* after the opening hour and lasts the given minutes
Candidate(date, minutes, k) ==
    LET from == OpenHour * 3600 + k * SlotIntervalMinutes * 60
        to == from + minutes * 60
    IN  [start |-> HourMinute(from), end |-> HourMinute(to),
         start_datetime |-> [date |-> date, sec |-> from],
         end_datetime |-> [date |-> date, sec |-> to]]

\* the number of candidates of the given minutes that end by the closing hour
CandidateCount(minutes) ==
    IF minutes > (CloseHour - OpenHour) * 60 THEN 0
    ELSE ((CloseHour - OpenHour) * 60 - minutes) \div SlotIntervalMinutes + 1

\* every stride-aligned candidate of an open day, in order
AllCandidates(date, minutes) ==
    [i \in 1..CandidateCount(minutes) |-> Candidate(date, minutes, i - 1)]

\* a checkAvailability call searched an open day while the remote listing failed
IsCheckWithFailedListing ==
    /\ IsCheck /\ last.path = "searched" /\ ~last.remoteOk
    /\ weekday(_parse_date(last.date_str)) \notin {5, 6}

\* C14: when the remote listing fails, _get_busy_periods returns no period and raises
\* nothing; a checkAvailability of an open day then returns every stride-aligned
\* candidate of the day, stores exactly those slots in the session and answers with the
\* slots message.
C14_FailedListingOffersEverything ==
    /\ _get_busy_periods(calendar, FALSE, combine(Monday, OpenHour), combine(Monday, CloseHour)) = <<>>
    /\ IsCheckWithFailedListing =>
           /\ last.ret = AllCandidates(_parse_date(last.date_str), ExpectedMinutes(last.service_type))
           /\ SlotsNow = last.ret /\ appointment_state.service_type = last.service_type
           /\ ~last.raised /\ Len(last.msgs) = 1 /\ last.msgs[1].kind = "slots"

\* the listing failed while the calendar held an event inside the business hours
C14_Witness ==
    /\ IsCheckWithFailedListing /\ calendar # EmptyBag
    /\ Len(last.ret) = CandidateCount(ExpectedMinutes(last.service_type))
    /\ SlotsNow = last.ret

\* the session a search of the Monday for a "contrôle" leaves on an empty calendar
SessionWithSlots ==
    process_appointment_request(<<>>, EmptyBag, TRUE,
        [sep |-> "/", tok |-> <<Num(15, 2), Num(7, 2), Num(2024, 4)>>], "contrôle").state

\* what the caller of a tool call observes: the value returned, the messages, an exception
Outcome(r) == <<r.ret, r.msgs, r.raised>>

\* C15: a book that fails because the session is empty or holds no slot has an outcome
\* that differs from the outcome of a book whose timestamps match no offered slot.
C15_FailureCausesDistinct ==
    (IsBook /\ last.path = "incomplete") =>
        LET not_found == _handle_book_appointment(SessionWithSlots, calendar, TRUE, 0, 0,
                                                  last.patient_info)
        IN  not_found.path = "not_found" /\ Outcome(last) # Outcome(not_found)

\* the candidate and the period share no instant, both taken as half-open
Disjoint(slot, period) ==
    EventOf(slot).end <= period[1] \/ EventOf(slot).start >= period[2]

\* C16: a stride-aligned candidate that ends by the closing hour is among the generated
\* slots if and only if it is disjoint from every merged busy period, a candidate that
\* only touches a busy period being disjoint from it; with 10:00-11:00 busy and 45
\* minutes, 09:00 is offered, 09:30, 10:00 and 10:30 are not, 11:00 to 16:00 are.
C16_OfferedIffDisjoint ==
    gen.phase = "slots" =>
        /\ \A k \in 0..(CandidateCount(gen.duration) - 1) :
               (\E i \in 1..Len(gen.slots) : gen.slots[i] = Candidate(Monday, gen.duration, k))
               <=> (\A j \in 1..Len(gen.merged) :
                        Disjoint(Candidate(Monday, gen.duration, k), gen.merged[j]))
        /\ (gen.raw = <<Period(10, 0, 0, 11, 0, 0)>> /\ gen.duration = 45) =>
               gen.slots = <<Candidate(Monday, 45, 0)>>
                           \o [i \in 1..11 |-> Candidate(Monday, 45, i + 3)]

\* 09:00-10:00 was offered next to a period starting at 10:00, 11:00-12:00 right after it
C16_Witness ==
    /\ gen.phase = "slots" /\ gen.raw = <<Period(10, 0, 0, 11, 0, 0)>> /\ gen.duration = 60
    /\ gen.slots[1] = Candidate(Monday, 60, 0) /\ gen.slots[2] = Candidate(Monday, 60, 4)

\* C17: every generated slot starts a whole number of 30-minute strides after the opening
\* hour, starts no earlier than the opening hour and ends no later than the closing
\* hour; the slots are in strictly ascending start order; generation always ends, with
\* at most one slot for each candidate.
C17_SlotsAlignedInsideAscending ==
    /\ gen.phase = "merged" => ENABLED GenerateSlots
    /\ gen.phase = "slots" =>
        /\ Len(gen.slots) <= CandidateCount(gen.duration)
        /\ \A i \in 1..Len(gen.slots) :
            /\ gen.slots[i].start_datetime.date = Monday
            /\ gen.slots[i].start_datetime.sec >= OpenHour * 3600
            /\ (gen.slots[i].start_datetime.sec - OpenHour * 3600) % (SlotIntervalMinutes * 60) = 0
            /\ EventOf(gen.slots[i]).start >= At(Monday, OpenHour, 0, 0)
            /\ EventOf(gen.slots[i]).end <= At(Monday, CloseHour, 0, 0)
            /\ i > 1 => EventOf(gen.slots[i - 1]).start < EventOf(gen.slots[i]).start

\* the last of several 90-minute slots ends exactly at the closing hour
C17_Witness ==
    /\ gen.phase = "slots" /\ gen.duration = 90 /\ gen.raw # <<>> /\ Len(gen.slots) > 1
    /\ EventOf(gen.slots[Len(gen.slots)]).end = At(Monday, CloseHour, 0, 0)

\* an instant counted in seconds from the Monday's midnight
SinceMidnight(t) == t - At(Monday, 0, 0, 0)

\* the starts and ends of the periods of a list
Endpoints(periods) == {SinceMidnight(periods[i][j]) : i \in 1..Len(periods), j \in 1..2}

\* the instant t2 / 2 after midnight lies in one of the periods, their ends included
Covers(periods, t2) ==
    \E i \in 1..Len(periods) :
        2 * SinceMidnight(periods[i][1]) <= t2 /\ t2 <= 2 * SinceMidnight(periods[i][2])

\* twice the starts and ends of the given and of the merged periods, and twice the
\* instants half-way between any two of them
TestInstants ==
    LET ends == Endpoints(gen.raw) \cup Endpoints(gen.merged) IN
    {a + b : a \in ends, b \in ends}

\* C18: the merged periods are sorted by start, each starting strictly after the end of
\* the one before (no overlap, no touching, nothing left to merge), and they cover
\* exactly the instants the given periods cover.
C18_MergeSortedDisjointMinimal ==
    gen.phase \in {"merged", "slots"} =>
        /\ \A i \in 2..Len(gen.merged) :
               /\ gen.merged[i - 1][1] < gen.merged[i][1]
               /\ gen.merged[i - 1][2] < gen.merged[i][1]
        /\ Len(gen.merged) <= Len(gen.raw)
        /\ gen.raw # <<>> => gen.merged # <<>>
        /\ \A t2 \in TestInstants : Covers(gen.merged, t2) <=> Covers(gen.raw, t2)

\* two periods that only touch were merged into one
C18_Witness ==
    /\ gen.phase = "merged" /\ Len(gen.raw) = 2 /\ Len(gen.merged) = 1
    /\ gen.raw[2][2] = gen.raw[1][1]
    /\ gen.merged[1] = <<gen.raw[2][1], gen.raw[1][2]>>

\* C19: book fails as incomplete if and only if the session is empty or holds no slot,
\* whatever service type text the search that filled the session was given.
C19_IncompleteIffNoSlots ==
    IsBook => (last.path = "incomplete" <=> SlotsBefore = <<>>)

\* the number of slots the summary of n slots lists
Listed(n) == IF n < SummaryLimit THEN n ELSE SummaryLimit

\* the request of the book call is exactly the listed start and end of the slot
RequestsExactly(slot) ==
    last.start = slot_line(slot).start_ts /\ last.end = slot_line(slot).end_ts

\* C20: the summary of a search that found n slots lists the first min(3, n) of them, in
\* order, each with its start and end instants, while the session stores all n slots in
\* ascending order; a book called with exactly the start and end listed for a slot
\* selects that slot.
C20_SummaryListsFirstThree ==
    /\ (IsCheck /\ last.ret # <<>>) =>
        /\ SlotsNow = last.ret
        /\ \A i \in 2..Len(SlotsNow) :
               EventOf(SlotsNow[i - 1]).start < EventOf(SlotsNow[i]).start
        /\ Len(last.msgs) = 1 /\ last.msgs[1].kind = "slots"
        /\ Len(last.msgs[1].lines) = Listed(Len(last.ret))
        /\ \A i \in 1..Listed(Len(last.ret)) :
               last.msgs[1].lines[i] =
                   [start |-> last.ret[i].start, end |-> last.ret[i].end,
                    start_ts |-> EventOf(last.ret[i]).start, end_ts |-> EventOf(last.ret[i]).end]
    /\ IsBook =>
        \A i \in 1..Listed(Len(SlotsBefore)) :
            RequestsExactly(SlotsBefore[i]) => last.slot = SlotsBefore[i]

\* the key occurs in the characters cs, letter case apart
Occurs(key, cs) ==
    \E offset \in 0..(Len(cs) - Len(key)) :
        \A j \in 1..Len(key) : LowerChar(cs[offset + j]) = key[j]

\* the duration of the first key of the table, in its order, that occurs in the text;
\* the default when none occurs
FirstKeywordDuration(service_type) ==
    LET hits == {i \in 1..Len(durations) : Occurs(durations[i].key, Chars(service_type))} IN
    IF hits = {} THEN DefaultDuration
    ELSE durations[CHOOSE i \in hits : \A j \in hits : i <= j].value

\* C22: for every service type text the duration resolved is that of the first keyword
\* of the table, in table order, that occurs in the text whatever its letter case, and
\* 60 minutes when none occurs; a search whose date parses never fails on the service
\* type and stores that duration.
C22_DurationOfFirstKeyword ==
    /\ \A service_type \in CatalogTexts :
           _get_service_duration(service_type) = FirstKeywordDuration(service_type)
    /\ _get_service_duration("couronne et carie") = 60
    /\ _get_service_duration("Extraction canal") = 90
    /\ _get_service_duration("CONTRÔLE") = 30
    /\ _get_service_duration("détartrage") = DefaultDuration
    /\ (IsCheck /\ last.path = "searched") =>
           /\ ~last.raised
           /\ appointment_state.service_type = last.service_type
           /\ appointment_state.duration = FirstKeywordDuration(last.service_type)

\* a search for a text naming two keywords, the later of the table first, stored 90 minutes
C22_Witness ==
    /\ IsCheck /\ last.service_type = "Extraction canal" /\ last.ret # <<>>
    /\ appointment_state.duration = 90

\* the positions of the slots, of those the session held when the book call started,
\* that pass the tolerance test for the request
MatchingSlots ==
    {i \in 1..Len(SlotsBefore) : slot_matches(SlotsBefore[i], last.start, last.end)}

\* C23: the slots of a session start at least 30 minutes after one another, so at most
\* one of them passes the tolerance test for a book request, and the slot book selects
\* is the only one that passes.
C23_AtMostOneSlotMatches ==
    /\ LET starts == <<>> \o [i \in 1..Len(SlotsNow) |-> timestamp(SlotsNow[i].start_datetime)] IN
           \A i \in 2..Len(SlotsNow) : starts[i] - starts[i - 1] >= SlotIntervalMinutes * 60
    /\ IsBook =>
           LET matching == MatchingSlots IN
           /\ Cardinality(matching) <= 1
           /\ last.slot # None => matching = {i \in 1..Len(SlotsBefore) : SlotsBefore[i] = last.slot}

\* a request 59 seconds after both bounds of the second of several slots selected it
C23_Witness ==
    /\ IsBook /\ last.slot # None /\ Len(SlotsBefore) > 2 /\ MatchingSlots = {2}
    /\ last.start = EventOf(SlotsBefore[2]).start + 59
    /\ last.end = EventOf(SlotsBefore[2]).end + 59

\* what a book call with the arguments of the call just answered would do now, the
\* remote insert working
BookAgain ==
    book_appointment(appointment_state, calendar, TRUE, last.start, last.end, last.patient_info)

\* C24: a successful book leaves the session as it was, the booked slot included; the
\* same request made again selects the same slot and sends another remote create for
\* the same interval, which the calendar then holds once more.
C24_BookedSlotStaysBookable ==
    (IsBook /\ last.path = "booked") =>
        /\ appointment_state = last.before
        /\ \E i \in 1..Len(SlotsNow) : SlotsNow[i] = last.slot
        /\ BookAgain.path = "booked" /\ BookAgain.slot = last.slot
        /\ BookAgain.sent = last.sent
        /\ BookAgain.cal = calendar (+) SetToBag({EventOf(last.slot)})

\* the same slot was booked twice: the calendar holds its event twice
C24_Witness ==
    /\ IsBook /\ last.path = "booked" /\ appointment_state = last.before
    /\ last.created = SetToBag({EventOf(last.slot)})
    /\ CopiesIn(EventOf(last.slot), calendar) = 2

\* a remote listing has been issued and has not returned
ListPending == loop.check # None

\* a remote insert has been issued and has not been executed
InsertPending == loop.book # None /\ loop.book.phase = "inserting"

\* C21: while the remote listing of a checkAvailability or the remote insert of a book is
\* pending, the event loop can process another frame.
C21_RemoteCallsOffTheLoop ==
    ((ListPending \/ InsertPending) /\ loop.frames < MaxFrames) => ENABLED ProcessFrame

\* while only the remote insert is pending, the event loop can process another frame
InsertRunsOffTheLoop ==
    (InsertPending /\ ~ListPending /\ loop.frames < MaxFrames) => ENABLED ProcessFrame

\* the events the calendar holds that overlap no slot of the session: a search that
\* returned these slots was made when the calendar held none of the other events, and an
\* event that overlaps no returned slot removes none of them
EventsClearOfSession ==
    LET clear == {e \in DOMAIN calendar :
                     \A i \in 1..Len(SlotsNow) : Disjoint(SlotsNow[i], <<e.start, e.end>>)}
    IN  [e \in clear |-> calendar[e]]

\* the session is what one search, made when the calendar held some of the events it
\* holds now, assigns: its date, service type, duration and slots belong together
SessionFromOneCheck ==
    /\ DOMAIN appointment_state = {"date", "service_type", "available_slots", "duration"}
    /\ \E date_str \in DateTexts : _parse_date(date_str) = appointment_state.date
    /\ appointment_state.service_type \in AsyncServiceTexts
    /\ appointment_state.duration = _get_service_duration(appointment_state.service_type)
    /\ appointment_state.available_slots
           = get_available_slots(EventsClearOfSession, TRUE, appointment_state.date,
                                 appointment_state.duration)

\* the slot is one of those the session held when the book call read it
ReadBefore(slot, state) ==
    \E i \in 1..Len(get(state, "available_slots", <<>>)) : state.available_slots[i] = slot

\* C25: whatever the interleaving of a checkAvailability and a book at their awaits, the
\* session is empty or holds the date, service type, duration and slots of one single
\* search; the slot a book selects, the event its insert creates and the confirmation
\* it returns are those of a slot of the session as book read it before the insert
\* started, even when a search has replaced the session in between.
C25_SessionAtomicBookOnReadSlots ==
    /\ appointment_state = <<>> \/ SessionFromOneCheck
    /\ (loop.book # None /\ loop.book.phase = "inserted") =>
           /\ ReadBefore(loop.book.result.slot, loop.book.before)
           /\ loop.book.created \in {EmptyBag, SetToBag({EventOf(loop.book.result.slot)})}
    /\ (IsBook /\ last.sent # <<>>) =>
           /\ ReadBefore(last.slot, last.before)
           /\ slot_matches(last.slot, last.start, last.end)
           /\ last.created \in {EmptyBag, SetToBag({EventOf(last.slot)})}
           /\ last.ret # None =>
                  /\ last.created = SetToBag({EventOf(last.slot)})
                  /\ last.ret.start = strftime_YmdHM(last.slot.start_datetime)
                  /\ last.ret.end = strftime_YmdHM(last.slot.end_datetime)
                  /\ last.ret.service = last.before.service_type

\* a book was confirmed for a slot of the session it read, after a search made during
\* its insert had replaced that session by one without the slot
C25_Witness ==
    /\ IsBook /\ last.ret # None /\ ReadBefore(last.slot, last.before)
    /\ appointment_state # last.before /\ ~ReadBefore(last.slot, appointment_state)
    /\ appointment_state.service_type # last.before.service_type

=============================================================================
